---- MODULE Spec2Model ----
(***************************************************************************)
(* Model of backend/main.py: the module body executed at import time (two  *)
(* FastAPI applications bound in turn to the name `app`, the route         *)
(* decorators, the GITHUB_TOKEN / GITHUB_API_VERSION globals) and the      *)
(* coroutine get_pull_requests, interleaved at its suspension points.      *)
(***************************************************************************)
EXTENDS Integers, Sequences, FiniteSets, TLC

(***************************************************************************)
(* Bounds of the model.                                                    *)
(***************************************************************************)
\* number of get_pull_requests invocations that may be in flight together
MaxInvocations == 2
\* longest upstream body text explored by the single-request specification
MaxBodyLen == 4

(***************************************************************************)
(* Inputs.                                                                 *)
(***************************************************************************)
Invocations == 1..MaxInvocations

Owners == {"octocat", "nonexistent"}
Repos == {"Hello-World", "nope"}

\* owner/repo pairs used when several requests are in flight
RepoPairs == {<<"octocat", "Hello-World">>, <<"nonexistent", "nope">>}

\* upstream status codes: 200, another 2xx, a redirect, a 4xx and a 5xx
Statuses == {200, 204, 302, 404, 500}
\* status codes used when several requests are in flight
SomeStatuses == {200, 404}

\* characters of an upstream body
Chars == {"[", "]", ",", "1", " "}

RECURSIVE TextsOfLen(_)
TextsOfLen(n) ==
    IF n = 0 THEN {<<>>}
    ELSE {Append(t, c) : t \in TextsOfLen(n - 1), c \in Chars}

\* every body text of at most MaxBodyLen characters
Texts == UNION {TextsOfLen(n) : n \in 0..MaxBodyLen}

\* body texts used when several requests are in flight:
\* `[1]`, the empty body, and a truncated document
SomeTexts == {<<"[", "1", "]">>, <<>>, <<"[">>}

\* values the process environment may give GITHUB_TOKEN; the empty
\* function is the environment in which the variable is unset
Environments ==
    {[k \in {} |-> ""], [k \in {"GITHUB_TOKEN"} |-> "ghp_abc"]}

(***************************************************************************)
(* json.loads, as called by response.json(), on the alphabet Chars:       *)
(* integers written with the digit 1, arrays, insignificant blanks.        *)
(* A parsed integer n is <<"int", n>>, a parsed array <<"list", e1, ..>>.  *)
(***************************************************************************)
IsWs(c) == c = " "
IsDigit(c) == c = "1"

Fail == [ok |-> FALSE, val |-> <<>>, end |-> 0]
Ok(v, e) == [ok |-> TRUE, val |-> v, end |-> e]

\* WHITESPACE.match(s, i).end(): index of the first non-blank at or after i
RECURSIVE SkipWs(_, _)
SkipWs(s, i) ==
    IF i <= Len(s) /\ IsWs(s[i]) THEN SkipWs(s, i + 1) ELSE i

\* end of the run of digits starting at i
RECURSIVE DigitsEnd(_, _)
DigitsEnd(s, i) ==
    IF i <= Len(s) /\ IsDigit(s[i]) THEN DigitsEnd(s, i + 1) ELSE i

\* int() of the digits s[i..j-1]
RECURSIVE IntOf(_, _, _)
IntOf(s, i, j) ==
    IF i >= j THEN 0 ELSE 10 * IntOf(s, i, j - 1) + 1

RECURSIVE ScanOnce(_, _)
RECURSIVE ScanItems(_, _, _)

\* JSONArray after the first element position: value, then `]` or `,`
ScanItems(s, i, acc) ==
    LET r == ScanOnce(s, i) IN
    IF ~r.ok THEN Fail
    ELSE LET j == SkipWs(s, r.end)
             vals == Append(acc, r.val) IN
         IF j > Len(s) THEN Fail
         ELSE IF s[j] = "]" THEN Ok(vals, j + 1)
         ELSE IF s[j] # "," THEN Fail
         ELSE ScanItems(s, SkipWs(s, j + 1), vals)

\* scan_once: one value starting exactly at i
ScanOnce(s, i) ==
    IF i > Len(s) THEN Fail
    ELSE IF s[i] = "[" THEN
        LET j == SkipWs(s, i + 1) IN
        IF j <= Len(s) /\ s[j] = "]" THEN Ok(<<"list">>, j + 1)
        ELSE ScanItems(s, j, <<"list">>)
    ELSE IF IsDigit(s[i]) THEN
        LET j == DigitsEnd(s, i) IN Ok(<<"int", IntOf(s, i, j)>>, j)
    ELSE Fail

\* the decoder ignores what follows a complete value
LoadsIgnoringExtraData(s) ==
    LET r == ScanOnce(s, SkipWs(s, 1)) IN
    IF ~r.ok THEN Fail ELSE Ok(r.val, Len(s) + 1)

\* JSONDecoder.decode: blanks, one value, blanks, end of text
Loads(s) ==
    LET r == ScanOnce(s, SkipWs(s, 1)) IN
    IF ~r.ok THEN Fail
    ELSE IF SkipWs(s, r.end) # Len(s) + 1 THEN Fail
    ELSE Ok(r.val, Len(s) + 1)

(***************************************************************************)
(* State.                                                                  *)
(***************************************************************************)
VARIABLES
    environ,             \* os.environ of the process
    pcLoad,              \* line of the module body to execute next
    apps,                \* the FastAPI objects created so far: their routes
    app,                 \* the object the name `app` is bound to (0: unbound)
    GITHUB_TOKEN,        \* module globals
    GITHUB_API_VERSION,
    rootReply,           \* the served application's last answer to GET /
    pc,                  \* position of each get_pull_requests invocation
    owner, repo,         \* its path parameters
    sent,                \* the outbound requests it has issued, in order
    clients,             \* the AsyncClient objects created so far: open or not
    client,              \* the client of its `async with` block (0: none)
    reply,               \* what the upstream did with its outbound request
    response,            \* what its awaited client.get produced
    outcome              \* how it ended

vars == <<environ, pcLoad, apps, app, GITHUB_TOKEN, GITHUB_API_VERSION,
          rootReply, pc, owner, repo, sent, clients, client, reply,
          response, outcome>>

loadVars == <<apps, app, GITHUB_TOKEN, GITHUB_API_VERSION>>
callVars ==
    <<pc, owner, repo, sent, clients, client, reply, response, outcome>>

Unbound == "<unbound>"

\* an HTTP answer of the served application; status_code 0: none yet
NoReply == [status_code |-> 0, body |-> <<>>]

\* what an awaited client.get can produce
NoResponse == [kind |-> "none", status_code |-> 0, text |-> <<>>]
Response(s, t) == [kind |-> "Response", status_code |-> s, text |-> t]
ConnectError == [kind |-> "ConnectError", status_code |-> 0, text |-> <<>>]

\* how an invocation can end
NoOutcome ==
    [kind |-> "none", status_code |-> 0, detail |-> <<>>, value |-> <<>>]
Return(v) ==
    [kind |-> "return", status_code |-> 0, detail |-> <<>>, value |-> v]
HTTPException(s, d) ==
    [kind |-> "HTTPException", status_code |-> s, detail |-> d,
     value |-> <<>>]
Unhandled(exc) ==
    [kind |-> exc, status_code |-> 0, detail |-> <<>>, value |-> <<>>]

\* the route tables: a path is the sequence of its segments
RootPath == <<>>
PullsTemplate == <<"repos", "{owner}", "{repo}", "pulls">>
PullsPath(o, r) == <<"repos", o, r, "pulls">>

IsParam(seg) == seg \in {"{owner}", "{repo}"}

\* a route template matches a path segment by segment
Matches(template, path) ==
    /\ Len(template) = Len(path)
    /\ \A k \in 1..Len(template) :
           IsParam(template[k]) \/ template[k] = path[k]

\* the endpoint an application runs for GET path, "" when no route matches
Dispatch(routes, path) ==
    LET hits == {k \in 1..Len(routes) : Matches(routes[k].path, path)} IN
    IF hits = {} THEN ""
    ELSE routes[CHOOSE k \in hits : \A h \in hits : k <= h].endpoint

\* os.getenv(key): the default is lost, None is formatted into the header
GetenvNoDefault(env, key, default) ==
    IF key \in DOMAIN env THEN env[key] ELSE "None"

\* os.getenv(key, default)
Getenv(env, key, default) ==
    IF key \in DOMAIN env THEN env[key] ELSE default

(***************************************************************************)
(* The module body, executed once, top to bottom.                          *)
(***************************************************************************)
Init ==
    /\ environ \in Environments
    /\ pcLoad = 3
    /\ apps = <<>>
    /\ app = 0
    /\ GITHUB_TOKEN = Unbound
    /\ GITHUB_API_VERSION = Unbound
    /\ rootReply = NoReply
    /\ pc = [i \in Invocations |-> "idle"]
    /\ owner = [i \in Invocations |-> ""]
    /\ repo = [i \in Invocations |-> ""]
    /\ sent = [i \in Invocations |-> <<>>]
    /\ clients = <<>>
    /\ client = [i \in Invocations |-> 0]
    /\ reply = [i \in Invocations |-> NoResponse]
    /\ response = [i \in Invocations |-> NoResponse]
    /\ outcome = [i \in Invocations |-> NoOutcome]

\* app = FastAPI()   (lines 3 and 14)
NewApp(next) ==
    /\ apps' = Append(apps, <<>>)
    /\ app' = Len(apps) + 1
    /\ pcLoad' = next
    /\ UNCHANGED <<GITHUB_TOKEN, GITHUB_API_VERSION>>

\* @app.get(path) on the object `app` names when the decorator runs
AddRoute(path, endpoint, next) ==
    /\ apps' = [apps EXCEPT ![app] =
                   Append(@, [path |-> path, endpoint |-> endpoint])]
    /\ pcLoad' = next
    /\ UNCHANGED <<app, GITHUB_TOKEN, GITHUB_API_VERSION>>

Load3 == pcLoad = 3 /\ NewApp(6)

Load6 == pcLoad = 6 /\ AddRoute(RootPath, "root", 14)

Load14 == pcLoad = 14 /\ NewApp(17)

Load17 ==
    /\ pcLoad = 17
    /\ GITHUB_TOKEN' = Getenv(environ, "GITHUB_TOKEN", "YOUR-TOKEN")
    /\ pcLoad' = 18
    /\ UNCHANGED <<apps, app, GITHUB_API_VERSION>>

Load18 ==
    /\ pcLoad = 18
    /\ GITHUB_API_VERSION' = "2022-11-28"
    /\ pcLoad' = 20
    /\ UNCHANGED <<apps, app, GITHUB_TOKEN>>

Load20 == pcLoad = 20 /\ AddRoute(PullsTemplate, "get_pull_requests", 0)

Load ==
    /\ Load3 \/ Load6 \/ Load14 \/ Load17 \/ Load18 \/ Load20
    /\ UNCHANGED <<environ, rootReply>>
    /\ UNCHANGED callVars

Loaded == pcLoad = 0

(***************************************************************************)
(* GET / on the served application, the final value of `app`.              *)
(***************************************************************************)
Greeting == "message" :> "Hello World"
NotFound == "detail" :> "Not Found"

\* the answer of an application to GET /
ServeGet(routes, path) ==
    IF Dispatch(routes, path) = "root"
    THEN [status_code |-> 200, body |-> Greeting]
    ELSE [status_code |-> 404, body |-> NotFound]

ServeRoot ==
    /\ Loaded
    /\ rootReply' = ServeGet(apps[app], RootPath)
    /\ UNCHANGED <<environ, pcLoad>>
    /\ UNCHANGED loadVars
    /\ UNCHANGED callVars

(***************************************************************************)
(* get_pull_requests(owner, repo).                                         *)
(***************************************************************************)
\* the two path parameters in the wrong order
UrlSwapped(o, r) ==
    "https://api.github.com/repos/" \o r \o "/" \o o \o "/pulls"

\* line 22
Url(o, r) == "https://api.github.com/repos/" \o o \o "/" \o r \o "/pulls"

\* the other common authorization scheme
HeadersBearer(token, version) ==
    ("Authorization" :> ("Bearer " \o token))
        @@ ("X-GitHub-Api-Version" :> version)

\* lines 23-26
Headers(token, version) ==
    ("Authorization" :> ("token " \o token))
        @@ ("X-GitHub-Api-Version" :> version)

\* client.get(url, headers=headers): no query parameters, no content
Get(url, headers) ==
    [method |-> "GET", url |-> url, headers |-> headers,
     params |-> <<>>, content |-> <<>>]

\* a client created without `async with` is never closed
CloseNothing(cs, c) == cs

\* AsyncClient.__aexit__: the client of the block is closed
Close(cs, c) == [cs EXCEPT ![c] = FALSE]

\* only 4xx and 5xx are taken as failures
HandlerOutcomeErrorsOnly(resp) ==
    IF resp.kind = "ConnectError" THEN Unhandled("ConnectError")
    ELSE IF resp.status_code >= 400
    THEN HTTPException(resp.status_code, resp.text)
    ELSE LET r == Loads(resp.text) IN
         IF r.ok THEN Return(r.val) ELSE Unhandled("JSONDecodeError")

\* the transport error is caught and reported as a 502
HandlerOutcomeCatching(resp) ==
    IF resp.kind = "ConnectError" THEN HTTPException(502, <<>>)
    ELSE IF resp.status_code # 200
    THEN HTTPException(resp.status_code, resp.text)
    ELSE LET r == Loads(resp.text) IN
         IF r.ok THEN Return(r.val) ELSE Unhandled("JSONDecodeError")

\* lines 31-34, or the exception of line 29 leaving the coroutine
HandlerOutcome(resp) ==
    IF resp.kind = "ConnectError" THEN Unhandled("ConnectError")
    ELSE IF resp.status_code # 200
    THEN HTTPException(resp.status_code, resp.text)
    ELSE LET r == Loads(resp.text) IN
         IF r.ok THEN Return(r.val) ELSE Unhandled("JSONDecodeError")

\* The served application routes GET /repos/{o}/{r}/pulls to the coroutine,
\* which runs up to its suspension at line 29: the URL and the headers are
\* built, a client is opened and the request is issued.
Call(i, o, r) ==
    /\ Loaded
    /\ pc[i] = "idle"
    /\ Dispatch(apps[app], PullsPath(o, r)) = "get_pull_requests"
    /\ owner' = [owner EXCEPT ![i] = o]
    /\ repo' = [repo EXCEPT ![i] = r]
    /\ clients' = Append(clients, TRUE)
    /\ client' = [client EXCEPT ![i] = Len(clients) + 1]
    /\ sent' = [sent EXCEPT ![i] =
                   Append(@, Get(Url(o, r),
                                 Headers(GITHUB_TOKEN, GITHUB_API_VERSION)))]
    /\ pc' = [pc EXCEPT ![i] = "await"]
    /\ UNCHANGED <<environ, pcLoad, rootReply, reply, response, outcome>>
    /\ UNCHANGED loadVars

\* `response` kept in a module-level name that every invocation reads
ResumeShared(i, s, t) ==
    /\ pc[i] = "await"
    /\ reply' = [reply EXCEPT ![i] = Response(s, t)]
    /\ response' = [j \in Invocations |-> Response(s, t)]
    /\ clients' = [clients EXCEPT ![client[i]] = FALSE]
    /\ pc' = [pc EXCEPT ![i] = "exited"]
    /\ UNCHANGED <<environ, pcLoad, rootReply, owner, repo, sent, client,
                   outcome>>
    /\ UNCHANGED loadVars

\* The upstream answers with status s and body t: the await of line 29
\* returns, `response` is bound and the `async with` block is left.
Resume(i, s, t) ==
    /\ pc[i] = "await"
    /\ reply' = [reply EXCEPT ![i] = Response(s, t)]
    /\ response' = [response EXCEPT ![i] = Response(s, t)]
    /\ clients' = Close(clients, client[i])
    /\ pc' = [pc EXCEPT ![i] = "exited"]
    /\ UNCHANGED <<environ, pcLoad, rootReply, owner, repo, sent, client,
                   outcome>>
    /\ UNCHANGED loadVars

\* The call fails below HTTP: the await of line 29 raises, the block is left
\* with the exception in flight.
ResumeError(i) ==
    /\ pc[i] = "await"
    /\ reply' = [reply EXCEPT ![i] = ConnectError]
    /\ response' = [response EXCEPT ![i] = ConnectError]
    /\ clients' = Close(clients, client[i])
    /\ pc' = [pc EXCEPT ![i] = "exited"]
    /\ UNCHANGED <<environ, pcLoad, rootReply, owner, repo, sent, client,
                   outcome>>
    /\ UNCHANGED loadVars

\* a failed call is issued once more before the status is reported
FinishRetrying(i) ==
    /\ pc[i] = "exited"
    /\ IF response[i].status_code # 200 /\ Len(sent[i]) < 2
       THEN /\ sent' = [sent EXCEPT ![i] = Append(@, @[1])]
            /\ clients' = [clients EXCEPT ![client[i]] = TRUE]
            /\ pc' = [pc EXCEPT ![i] = "await"]
            /\ UNCHANGED outcome
       ELSE /\ outcome' = [outcome EXCEPT ![i] = HandlerOutcome(response[i])]
            /\ pc' = [pc EXCEPT ![i] = "done"]
            /\ UNCHANGED <<sent, clients>>
    /\ UNCHANGED <<environ, pcLoad, rootReply, owner, repo, client, reply,
                   response>>
    /\ UNCHANGED loadVars

\* Lines 31-34: the status test, then the raise or the return.
Finish(i) ==
    /\ pc[i] = "exited"
    /\ outcome' = [outcome EXCEPT ![i] = HandlerOutcome(response[i])]
    /\ pc' = [pc EXCEPT ![i] = "done"]
    /\ UNCHANGED <<environ, pcLoad, rootReply, owner, repo, sent, clients,
                   client, reply, response>>
    /\ UNCHANGED loadVars

(***************************************************************************)
(* Specifications.                                                         *)
(***************************************************************************)
Handle(I, P, S, T) ==
    \E i \in I :
        \/ pc[i] = "idle" /\ \E p \in P : Call(i, p[1], p[2])
        \/ pc[i] = "await" /\ \E s \in S, t \in T : Resume(i, s, t)
        \/ ResumeError(i)
        \/ Finish(i)

\* several requests in flight together
Next ==
    Load \/ ServeRoot
         \/ Handle(Invocations, RepoPairs, SomeStatuses, SomeTexts)

Spec == Init /\ [][Next]_vars

\* one request, every owner, repo, status and body text of the bounds
NextOne == Load \/ ServeRoot \/ Handle({1}, Owners \X Repos, Statuses, Texts)

SpecOne == Init /\ [][NextOne]_vars

(***************************************************************************)
(* JSON texts, stated without the decoder: the text of a value, the texts  *)
(* that differ from it by insignificant blanks only.                       *)
(***************************************************************************)
DigitChars == <<"0", "1", "2", "3", "4", "5", "6", "7", "8", "9">>

RECURSIVE DecimalText(_)
DecimalText(n) ==
    IF n < 10 THEN <<DigitChars[n + 1]>>
    ELSE Append(DecimalText(n \div 10), DigitChars[(n % 10) + 1])

RECURSIVE JsonText(_)
RECURSIVE JoinTexts(_, _)

\* the texts of v[k..], separated by commas
JoinTexts(v, k) ==
    IF k > Len(v) THEN <<>>
    ELSE IF k = Len(v) THEN JsonText(v[k])
    ELSE JsonText(v[k]) \o <<",">> \o JoinTexts(v, k + 1)

\* the compact JSON text of a value; <<"?">> for what is no JSON value
JsonText(v) ==
    IF Len(v) = 0 THEN <<"?">>
    ELSE IF v[1] = "int" THEN DecimalText(v[2])
    ELSE IF v[1] = "list" THEN <<"[">> \o JoinTexts(v, 2) \o <<"]">>
    ELSE <<"?">>

\* a blank between two digits separates two numbers: it is significant
RECURSIVE PrevNonBlank(_, _)
PrevNonBlank(t, k) ==
    IF k < 1 THEN "" ELSE IF t[k] # " " THEN t[k] ELSE PrevNonBlank(t, k - 1)

RECURSIVE NextNonBlank(_, _)
NextNonBlank(t, k) ==
    IF k > Len(t) THEN ""
    ELSE IF t[k] # " " THEN t[k] ELSE NextNonBlank(t, k + 1)

Significant(t, k) ==
    \/ t[k] # " "
    \/ PrevNonBlank(t, k) = "1" /\ NextNonBlank(t, k) = "1"

\* t[k..] without its insignificant blanks
RECURSIVE CompactFrom(_, _)
CompactFrom(t, k) ==
    IF k > Len(t) THEN <<>>
    ELSE IF Significant(t, k) THEN <<t[k]>> \o CompactFrom(t, k + 1)
    ELSE CompactFrom(t, k + 1)

Compact(t) == CompactFrom(t, 1)

\* the JSON values whose compact text has at most n characters
RECURSIVE ValuesUpTo(_)
ValuesUpTo(n) ==
    IF n <= 0 THEN {}
    ELSE LET ints == {<<"int", (10 ^ k - 1) \div 9>> : k \in 1..n}
             inner == ValuesUpTo(n - 2)
             items == UNION {[1..k -> inner] : k \in 0..((n - 1) \div 2)}
             lists == {<<"list">> \o its : its \in items}
         IN  {v \in ints \cup (IF n >= 2 THEN lists ELSE {}) :
                  Len(JsonText(v)) <= n}

JsonValues == ValuesUpTo(MaxBodyLen)

\* t is a JSON text
IsJsonText(t) == \E v \in JsonValues : JsonText(v) = Compact(t)

(***************************************************************************)
(* Properties.                                                             *)
(***************************************************************************)
Answered(i, s) ==
    pc[i] = "done" /\ reply[i].kind = "Response" /\ reply[i].status_code = s

\* C1 as stated: whenever the upstream answers 200 with body B, whatever B
\* is, the handler returns and its result is B.
C1_AnyBodyReturned ==
    \A i \in Invocations :
        Answered(i, 200) =>
            /\ outcome[i].kind = "return"
            /\ JsonText(outcome[i].value) = Compact(reply[i].text)

\* C1, amended: when the upstream answers 200 with body B, either B is a
\* JSON text, and the handler returns the value B denotes (the text of the
\* result is B up to insignificant blanks: nothing filtered, added or
\* transformed), or B is no JSON text, and the handler ends with the
\* decoder's JSONDecodeError unhandled, not with a result and not with the
\* Upstream Error.
C1_JsonBodyReturned ==
    \A i \in Invocations :
        Answered(i, 200) =>
            IF IsJsonText(reply[i].text)
            THEN /\ outcome[i].kind = "return"
                 /\ JsonText(outcome[i].value) = Compact(reply[i].text)
            ELSE outcome[i].kind = "JSONDecodeError"

\* a 200 whose body is an array with an element has been returned
C1_Witness ==
    \E i \in Invocations :
        /\ Answered(i, 200)
        /\ outcome[i].kind = "return"
        /\ Len(outcome[i].value) > 1
        /\ outcome[i].value[1] = "list"

\* C2: whenever the upstream answers with a status S other than 200 and body
\* E, the handler ends with the HTTPException whose status code is S and
\* whose detail is E, and never with a result.
C2_Non200Raised ==
    \A i \in Invocations :
        pc[i] = "done" /\ reply[i].kind = "Response"
                       /\ reply[i].status_code # 200 =>
            /\ outcome[i].kind = "HTTPException"
            /\ outcome[i].status_code = reply[i].status_code
            /\ outcome[i].detail = reply[i].text
            /\ outcome[i].value = <<>>

\* a 204 with a body, which another reading of "failure" would let through
C2_Witness ==
    \E i \in Invocations :
        /\ Answered(i, 204)
        /\ reply[i].text = <<"[", "1", "]">>
        /\ outcome[i].kind = "HTTPException"

\* the credential of the process: the startup environment's GITHUB_TOKEN,
\* the placeholder when it has none
Credential ==
    IF "GITHUB_TOKEN" \in DOMAIN environ
    THEN environ["GITHUB_TOKEN"] ELSE "YOUR-TOKEN"

\* C3: every outbound request carries exactly the headers Authorization =
\* "token " followed by the startup credential and X-GitHub-Api-Version =
\* "2022-11-28", and once the module is loaded GITHUB_TOKEN is that
\* credential at all times.
C3_FixedHeaders ==
    /\ Loaded => GITHUB_TOKEN = Credential
    /\ \A i \in Invocations : \A k \in 1..Len(sent[i]) :
           /\ DOMAIN sent[i][k].headers =
                  {"Authorization", "X-GitHub-Api-Version"}
           /\ sent[i][k].headers["Authorization"] = "token " \o Credential
           /\ sent[i][k].headers["X-GitHub-Api-Version"] = "2022-11-28"

\* a request was issued later than the request, now ended, for another
\* repository
C3_Witness ==
    \E i, j \in Invocations :
        /\ pc[i] = "done"
        /\ Len(sent[j]) = 1
        /\ client[i] < client[j]
        /\ owner[i] # owner[j]

\* C4: every outbound request of an invocation is a GET of
\* https://api.github.com/repos/{owner}/{repo}/pulls for the invocation's
\* own owner and repo, with no query parameters and no content.
C4_TargetUrl ==
    \A i \in Invocations : \A k \in 1..Len(sent[i]) :
        /\ sent[i][k].method = "GET"
        /\ sent[i][k].url =
               "https://api.github.com/repos/" \o owner[i] \o "/"
                   \o repo[i] \o "/pulls"
        /\ owner[i] = "octocat" /\ repo[i] = "nope" =>
               sent[i][k].url = "https://api.github.com/repos/octocat/nope/pulls"
        /\ sent[i][k].params = <<>>
        /\ sent[i][k].content = <<>>

C4_Witness ==
    \E i \in Invocations :
        /\ owner[i] = "octocat" /\ repo[i] = "nope"
        /\ Len(sent[i]) = 1

\* C5: an invocation issues its one outbound request when it is called and
\* none afterwards, whatever the upstream does.
C5_OneOutboundCall ==
    \A i \in Invocations :
        Len(sent[i]) = IF pc[i] = "idle" THEN 0 ELSE 1

\* an invocation has ended on a non-200 answer, another on a 200
C5_Witness ==
    \E i, j \in Invocations :
        /\ Answered(i, 404) /\ Len(sent[i]) = 1
        /\ Answered(j, 200) /\ Len(sent[j]) = 1

\* C6: when GITHUB_TOKEN is unset in the startup environment, a request is
\* not refused: the invocation issues its outbound GET before any outcome,
\* with Authorization = "token YOUR-TOKEN".
C6_PlaceholderToken ==
    "GITHUB_TOKEN" \notin DOMAIN environ =>
        \A i \in Invocations :
            /\ pc[i] # "idle" =>
                   /\ Len(sent[i]) >= 1
                   /\ sent[i][1].method = "GET"
                   /\ sent[i][1].headers["Authorization"] = "token YOUR-TOKEN"
            /\ pc[i] \in {"idle", "await"} => outcome[i] = NoOutcome

C6_Witness ==
    /\ "GITHUB_TOKEN" \notin DOMAIN environ
    /\ \E i \in Invocations : pc[i] = "await" /\ Len(sent[i]) = 1

\* C7: once the module is loaded, the served application answers GET / with
\* 200 and {"message": "Hello World"}, and routes GET /repos/{owner}/{repo}/
\* pulls to get_pull_requests.
C7_BothRoutesServed ==
    /\ rootReply # NoReply =>
           rootReply = [status_code |-> 200, body |-> Greeting]
    /\ Loaded =>
           \A p \in RepoPairs :
               Dispatch(apps[app], PullsPath(p[1], p[2]))
                   = "get_pull_requests"

InvocationLocals(i) ==
    <<owner[i], repo[i], sent[i], client[i], reply[i], response[i],
      outcome[i]>>

\* C8: the outcome of an invocation is the handler's function of the
\* upstream's answer to its own request, its request is the one for its own
\* owner and repo, and a step that is not the invocation's own changes
\* nothing of the invocation, nor its client, nor, once the module is
\* loaded, the credential.
C8_Independent ==
    /\ [](\A i \in Invocations :
              /\ pc[i] = "done" => outcome[i] = HandlerOutcome(reply[i])
              /\ pc[i] # "idle" =>
                     sent[i][1].url = Url(owner[i], repo[i]))
    /\ [][/\ \A i \in Invocations :
                 pc'[i] = pc[i] =>
                     /\ InvocationLocals(i)' = InvocationLocals(i)
                     /\ client[i] # 0 =>
                            clients'[client[i]] = clients[client[i]]
          /\ Loaded => GITHUB_TOKEN' = GITHUB_TOKEN]_vars

\* an invocation called later has ended while an earlier one, for another
\* repository, is still waiting for the upstream
C8_Witness ==
    \E i, j \in Invocations :
        /\ pc[i] = "done" /\ pc[j] = "await"
        /\ client[j] < client[i]
        /\ owner[i] # owner[j]

\* C9: when the outbound call fails below HTTP, the invocation ends with
\* that exception unhandled, neither a result nor an HTTPException, and has
\* issued no second request.
C9_NetworkFaultPropagates ==
    \A i \in Invocations :
        pc[i] = "done" /\ reply[i].kind = "ConnectError" =>
            /\ outcome[i].kind = "ConnectError"
            /\ outcome[i].status_code = 0
            /\ outcome[i].value = <<>>
            /\ Len(sent[i]) = 1

C9_Witness ==
    \E i \in Invocations :
        pc[i] = "done" /\ reply[i].kind = "ConnectError"

\* C10: an invocation has a client of its own, open while it waits for the
\* upstream and closed from the moment the block is left, before the status
\* test and before any outcome, on every path; no client is left open
\* without a waiting invocation.
C10_ClientClosed ==
    /\ \A i \in Invocations :
           /\ pc[i] = "idle" => client[i] = 0
           /\ pc[i] = "await" => client[i] # 0 /\ clients[client[i]]
           /\ pc[i] \in {"exited", "done"} =>
                  client[i] # 0 /\ ~clients[client[i]]
           /\ outcome[i] # NoOutcome => ~clients[client[i]]
    /\ \A i, j \in Invocations :
           i # j /\ client[i] # 0 => client[i] # client[j]
    /\ \A c \in 1..Len(clients) :
           clients[c] => \E i \in Invocations : client[i] = c /\ pc[i] = "await"

\* an invocation has ended with an error, its client closed,
\* while another invocation still holds its client open
C10_Witness ==
    \E i, j \in Invocations :
        /\ pc[i] = "done" /\ outcome[i].kind \in {"HTTPException", "ConnectError"}
        /\ ~clients[client[i]]
        /\ pc[j] = "await" /\ clients[client[j]]

====
